---- MODULE Spec2Model ----
(***************************************************************************)
(* Model of silx.io.spectoh5: write_spec_to_h5 walks a SpecFileH5 tree and *)
(* writes groups, datasets and derived alias links into an HDF5 file;      *)
(* convert is its restricted entry point.                                  *)
(*                                                                         *)
(* Text (paths) is a sequence of tokens.  The alphabet is chosen so that   *)
(* the token "instrument" is the only place the text "instrument" occurs,  *)
(* which makes str.replace and the two regular expressions exact on token  *)
(* sequences.                                                              *)
(***************************************************************************)
EXTENDS Integers, Sequences, FiniteSets, TLC

VARIABLES
    pc,         \* "idle", "running" (inside visititems), "done", "raised"
    env,        \* the caller's objects: source tree, mount path, kind of h5_file
    args,       \* the arguments of the call in progress
    h5f,        \* content of the HDF5 file: path -> entry
    nid,        \* next HDF5 object identity
    fileExists, \* the HDF5 file exists on disk (or is an open handle)
    h5open,     \* the HDF5 file is open
    idx,        \* position of visititems in the source tree
    err,        \* the exception that ended the call, with the line raising it
    log,        \* names passed to create/delete calls on h5f during this call
    opened,     \* files opened by the calls so far
    h5f0,       \* content of the file when the current traversal started
    snap,       \* content of the file when the previous call returned
    run,        \* number of calls made
    ax          \* silx.gui.plot.items.axis: the Y axes of one plot

vars == <<pc, env, args, h5f, nid, fileExists, h5open, idx, err, log, opened,
          h5f0, snap, run, ax>>

\* Number of successive calls with the same arguments.
MaxRuns == 2

\* Number of calls made on the axes.
MaxCalls == 3

-----------------------------------------------------------------------------
(* Text *)

Sep == "/"
Digits == {"0", "1"}

\* str.endswith("/")
EndsWithSep(s) == Len(s) > 0 /\ s[Len(s)] = Sep

\* str.lstrip("/")
RECURSIVE LStrip(_)
LStrip(s) == IF Len(s) > 0 /\ s[1] = Sep THEN LStrip(Tail(s)) ELSE s

\* str.replace("instrument", "measurement"): every occurrence
ReplaceInstrument(s) ==
    [i \in 1..Len(s) |-> IF s[i] = "instrument" THEN "measurement" ELSE s[i]]

\* [0-9]+
IsDigits(s) == Len(s) >= 1 /\ \A i \in 1..Len(s) : s[i] \in Digits

\* /([0-9]+\.[0-9]+)/instrument/mca_([0-9]+)/?<last>$ matched on all of t
McaTail(t, last) ==
    /\ Len(t) >= 9
    /\ t[1] = Sep
    /\ \E a \in 1..(Len(t) - 8) :
        /\ IsDigits(SubSeq(t, 2, 1 + a))
        /\ t[2 + a] = "."
        /\ \E b \in 1..(Len(t) - 7 - a) :
            /\ IsDigits(SubSeq(t, 3 + a, 2 + a + b))
            /\ SubSeq(t, 3 + a + b, 6 + a + b) = <<Sep, "instrument", Sep, "mca_">>
            /\ \E c \in 1..(Len(t) - 6 - a - b) :
                /\ IsDigits(SubSeq(t, 7 + a + b, 6 + a + b + c))
                /\ SubSeq(t, 7 + a + b + c, Len(t)) \in {last, <<Sep>> \o last}

\* re.match(r".*/([0-9]+\.[0-9]+)/instrument/mca_([0-9]+)/?data$", h5_name)
MatchMcaData(s) ==
    \E i \in 1..Len(s) : McaTail(SubSeq(s, i, Len(s)), <<"data">>)

\* re.match(r".*/([0-9]+\.[0-9]+)/instrument/mca_([0-9]+)/?$", h5_name)
MatchMcaGroup(s) ==
    \E i \in 1..Len(s) : McaTail(SubSeq(s, i, Len(s)), <<>>)

-----------------------------------------------------------------------------
(* The HDF5 file behind h5f: a map from absolute paths to entries.  A hard *)
(* link is a second path holding an entry with the same object identity.   *)

Root == <<Sep>>

\* HDF5 resolves a name with a trailing separator to the same member
Norm(p) == IF Len(p) > 1 /\ EndsWithSep(p) THEN SubSeq(p, 1, Len(p) - 1) ELSE p

GroupEntry(id) ==
    [kind |-> "group", id |-> id, data |-> 0, shape |-> "", opts |-> "", to |-> <<>>]

DatasetEntry(data, shape, opts) ==
    [kind |-> "dataset", id |-> 0, data |-> data, shape |-> shape, opts |-> opts,
     to |-> <<>>]

\* h5py.SoftLink(path)
SoftLink(path) ==
    [kind |-> "soft", id |-> -1, data |-> 0, shape |-> "", opts |-> "", to |-> path]

EmptyFile == [p \in {Root} |-> GroupEntry(0)]

NoErr == [type |-> "none", line |-> 0]

\* the state the file operations thread through one call
H5State(f, n) == [h5 |-> f, nid |-> n, err |-> NoErr, log |-> {}]

Raise(s, type, line) ==
    IF s.err = NoErr THEN [s EXCEPT !.err = [type |-> type, line |-> line]] ELSE s

\* the groups a path lies in, the root excepted
Ancestors(n) == {SubSeq(n, 1, i - 1) : i \in {j \in 2..Len(n) : n[j] = Sep}}

\* k is n or lies below n
Under(n, k) ==
    \/ k = n
    \/ Len(k) > Len(n) /\ SubSeq(k, 1, Len(n)) = n /\ k[Len(n) + 1] = Sep

\* name in h5f
H5Has(s, name) == Norm(name) \in DOMAIN s.h5

\* del h5f[name]: unlink the member and what the file holds below it
H5Delete(s, name) ==
    IF s.err # NoErr THEN s
    ELSE LET n == Norm(name) IN
         [s EXCEPT !.h5 = [k \in {q \in DOMAIN s.h5 : ~Under(n, q)} |-> s.h5[k]],
                   !.log = @ \cup {name}]

\* h5f.create_group / h5f.create_dataset / h5f[name] = target: bind name to
\* the entry, creating the missing intermediate groups; fresh entries get a
\* new identity.  HDF5 refuses a name that exists or lies below a non-group.
H5Put(s, name, entry, fresh, line) ==
    IF s.err # NoErr THEN s
    ELSE LET n == Norm(name)
             missing == Ancestors(n) \ DOMAIN s.h5
             rank(a) == Cardinality({b \in missing : Len(b) < Len(a)})
             refused == \/ n \in DOMAIN s.h5
                        \/ \E a \in Ancestors(n) \cap DOMAIN s.h5 :
                               s.h5[a].kind # "group"
             e == IF fresh THEN [entry EXCEPT !.id = s.nid + Cardinality(missing)]
                  ELSE entry
         IN IF refused THEN Raise(s, "H5Error", line)
            ELSE [s EXCEPT
                    !.h5 = [k \in DOMAIN s.h5 \cup missing \cup {n} |->
                              IF k = n THEN e
                              ELSE IF k \in missing THEN GroupEntry(s.nid + rank(k))
                              ELSE s.h5[k]],
                    !.nid = @ + Cardinality(missing) + (IF fresh THEN 1 ELSE 0),
                    !.log = @ \cup {name}]

-----------------------------------------------------------------------------
(* The inputs: source trees in visititems order, mount paths, file content *)

Scan == <<Sep, "1", ".", "1">>
Title == Scan \o <<Sep, "title">>
Instrument == Scan \o <<Sep, "instrument">>
InstrMca == Instrument \o <<Sep, "mca_", "0">>
InstrMcaData == InstrMca \o <<Sep, "data">>
Measurement == Scan \o <<Sep, "measurement">>
MeasMca == Measurement \o <<Sep, "mca_", "0">>
MeasMcaData == MeasMca \o <<Sep, "data">>
MeasMcaInfo == MeasMca \o <<Sep, "info">>

\* shape == () is "scalar"
Node(name, kind, shape, data) ==
    [name |-> name, kind |-> kind, shape |-> shape, data |-> data]

\* a scan without MCA
SrcPlain ==
    << Node(Scan, "Group", "", 0),
       Node(Title, "Dataset", "scalar", 5) >>

\* a scan with one MCA; shape is the shape of the MCA data
SrcMca(shape) ==
    << Node(Scan, "Group", "", 0),
       Node(Instrument, "Group", "", 0),
       Node(InstrMca, "Group", "", 0),
       Node(InstrMcaData, "Dataset", shape, 7),
       Node(Measurement, "Group", "", 0),
       Node(MeasMca, "Group", "", 0),
       Node(MeasMcaData, "LinkToDataset", shape, 7),
       Node(MeasMcaInfo, "LinkToGroup", "", 0),
       Node(Title, "Dataset", "array", 5) >>

\* a tree whose root holds one dataset
SrcFlat ==
    << Node(<<Sep, "data">>, "Dataset", "array", 7) >>

Sources == {SrcPlain, SrcMca("array"), SrcMca("scalar"), SrcFlat}

\* h5path as the caller gives it
Mounts == {<<Sep>>, <<Sep, "a">>, <<Sep, "instrument", Sep>>, InstrMca}

\* if not h5path.endswith("/"): h5path += "/"
NormH5Path(h5path) == IF EndsWithSep(h5path) THEN h5path ELSE h5path \o <<Sep>>

\* what the file holds before the first call, below the mount path
Seeds == {"none", "group", "data", "alias", "info", "title"}

SeedFile(mount, seed) ==
    LET at(p) == NormH5Path(mount) \o LStrip(p)
        s0 == H5State(EmptyFile, 1)
        old == DatasetEntry(9, "array", "empty")
        s1 == CASE seed = "none"  -> s0
                [] seed = "group" -> H5Put(s0, at(InstrMca), GroupEntry(0), TRUE, 0)
                [] seed = "data"  -> H5Put(s0, at(InstrMcaData), old, TRUE, 0)
                [] seed = "alias" -> H5Put(s0, at(MeasMcaData), old, TRUE, 0)
                [] seed = "info"  -> H5Put(s0, at(MeasMcaInfo), old, TRUE, 0)
                [] OTHER          -> H5Put(s0, at(Title), old, TRUE, 0)
    IN s1

Modes == {"r+", "w", "w-", "a"}
LinkTypes == {"hard", "soft", "symbolic"}
DatasetArgs == {"None", "gzip"}

-----------------------------------------------------------------------------
(* write_spec_to_h5 *)

\* if create_dataset_args is None: create_dataset_args = {}
NormArgs(cda) == IF cda = "None" THEN "empty" ELSE cda

IsSpecFileH5Link(obj) == obj.kind \in {"LinkToGroup", "LinkToDataset"}
IsSpecFileH5Dataset(obj) == obj.kind = "Dataset"
IsSpecFileH5Group(obj) == obj.kind = "Group"

\* the link_type dispatch at the end of create_link
MakeLink(s, a, link_name, target, target_name) ==
    IF a.link_type = "hard" THEN H5Put(s, link_name, target, FALSE, 103)
    ELSE IF a.link_type = "soft"
         THEN H5Put(s, link_name, SoftLink(target_name), FALSE, 105)
    ELSE Raise(s, "ValueError", 107)

create_link(s, a, link_name, target, target_name) ==
    IF ~H5Has(s, link_name) THEN MakeLink(s, a, link_name, target, target_name)
    ELSE IF a.overwrite_data
         THEN MakeLink(H5Delete(s, link_name), a, link_name, target, target_name)
    ELSE s

\* CreateDataset with the scalar exemption forgotten
CreateDataset_NoExemption(s, a, h5_name, obj) ==
    H5Put(s, h5_name,
          DatasetEntry(obj.data, obj.shape, a.create_dataset_args), TRUE, 132)

\* h5f.create_dataset(h5_name, data=obj[, **create_dataset_args])
CreateDataset(s, a, h5_name, obj) ==
    IF obj.shape = "scalar"
    THEN H5Put(s, h5_name, DatasetEntry(obj.data, obj.shape, "empty"), TRUE, 130)
    ELSE H5Put(s, h5_name,
               DatasetEntry(obj.data, obj.shape, a.create_dataset_args), TRUE, 132)

\* the Dataset branch of append_spec_member_to_h5; ds is bound only when
\* the dataset is created on this visit
AppendDataset(s, a, h5_name, obj) ==
    LET member_initially_exists == H5Has(s, h5_name)
        s1 == IF a.overwrite_data /\ member_initially_exists
              THEN H5Delete(s, h5_name) ELSE s
        bound == a.overwrite_data \/ ~member_initially_exists
        s2 == IF bound THEN CreateDataset(s1, a, h5_name, obj) ELSE s1
    IN IF s2.err # NoErr THEN s2
       ELSE IF MatchMcaData(h5_name)
            THEN IF bound
                 THEN create_link(s2, a, ReplaceInstrument(h5_name),
                                  s2.h5[Norm(h5_name)], Norm(h5_name))
                 ELSE Raise(s2, "UnboundLocalError", 140)
       ELSE s2

\* the Group branch of append_spec_member_to_h5; grp is bound only when
\* the group is created on this visit
AppendGroup(s, a, h5_name, obj) ==
    LET bound == ~H5Has(s, h5_name)
        s1 == IF bound THEN H5Put(s, h5_name, GroupEntry(0), TRUE, 152) ELSE s
    IN IF s1.err # NoErr THEN s1
       ELSE IF MatchMcaGroup(h5_name)
            THEN IF bound
                 THEN create_link(s1, a,
                                  ReplaceInstrument(h5_name) \o <<Sep, "info">>,
                                  s1.h5[Norm(h5_name)], Norm(h5_name))
                 ELSE Raise(s1, "UnboundLocalError", 160)
       ELSE s1

H5Name(a, spec_h5_name) == a.h5path \o LStrip(spec_h5_name)

\* append_spec_member_to_h5 with link members not skipped but
\* handled as the dataset or group they stand for
append_links_as_members(s, a, obj) ==
    LET h5_name == H5Name(a, obj.name) IN
    IF obj.kind \in {"Dataset", "LinkToDataset"}
    THEN AppendDataset(s, a, h5_name, obj)
    ELSE AppendGroup(s, a, h5_name, obj)

append_spec_member_to_h5(s, a, obj) ==
    LET h5_name == H5Name(a, obj.name) IN
    IF IsSpecFileH5Link(obj) THEN s
    ELSE IF IsSpecFileH5Dataset(obj) THEN AppendDataset(s, a, h5_name, obj)
    ELSE IF IsSpecFileH5Group(obj) THEN AppendGroup(s, a, h5_name, obj)
    ELSE s

-----------------------------------------------------------------------------
(* silx.gui.plot.items.axis: the main Y axis (YAxis) and the YRightAxis    *)
(* built on it, with the plot backend that stores the orientation.         *)

Axes == {"main", "right"}

\* Axis.__init__ for both axes; the backend's orientation is the plot's
NewAxes(inverted) ==
    [isLog |-> [x \in Axes |-> FALSE],
     isAutoScale |-> [x \in Axes |-> TRUE],
     backend |-> [inverted |-> inverted, log |-> FALSE],
     plot |-> [dirty |-> FALSE, rangeValid |-> TRUE],
     emitted |-> <<>>,
     calls |-> 0]

\* self.sig...Changed: YRightAxis answers with the main axis's signal
SignalOf(self, name) ==
    [owner |-> IF self = "right" THEN "main" ELSE self, name |-> name]

Emit(a, self, name, value) ==
    [a EXCEPT !.emitted = Append(@, [signal |-> SignalOf(self, name),
                                     value |-> value])]

Axis_setLogarithmic(a, self, flag) ==
    IF flag = a.isLog[self] THEN a
    ELSE Emit([a EXCEPT !.isLog[self] = flag,
                        !.backend.log = flag,
                        !.plot.rangeValid = FALSE],
              self, "sigLogarithmicChanged", flag)

Axis_setAutoScale(a, self, flag) ==
    Emit([a EXCEPT !.isAutoScale[self] = flag], self, "sigAutoScaleChanged", flag)

YAxis_setInverted(a, self, flag) ==
    Emit([a EXCEPT !.backend.inverted = flag, !.plot.dirty = TRUE],
         self, "sigInvertedChanged", flag)

\* the methods as called on either axis: YRightAxis hands over to its
\* main axis
setLogarithmic(a, axis, flag) ==
    IF axis = "right" THEN Axis_setLogarithmic(a, "main", flag)
    ELSE Axis_setLogarithmic(a, axis, flag)

setAutoScale(a, axis, flag) ==
    IF axis = "right" THEN Axis_setAutoScale(a, "main", flag)
    ELSE Axis_setAutoScale(a, axis, flag)

setInverted(a, axis, flag) ==
    IF axis = "right" THEN YAxis_setInverted(a, "main", flag)
    ELSE YAxis_setInverted(a, axis, flag)

\* isLogarithmic answering from the axis's own field
isLogarithmic_own(a, axis) == a.isLog[axis]

isLogarithmic(a, axis) ==
    IF axis = "right" THEN a.isLog["main"] ELSE a.isLog[axis]

isAutoScale(a, axis) ==
    IF axis = "right" THEN a.isAutoScale["main"] ELSE a.isAutoScale[axis]

isInverted(a, axis) == a.backend.inverted

-----------------------------------------------------------------------------
(* The calls *)

\* h5py.File(h5_file, h5_file_mode) can be created or opened
CanOpen(mode, exists) ==
    CASE mode = "r+" -> exists
      [] mode = "w-" -> ~exists
      [] OTHER -> TRUE

\* ... and what it then holds: "w" loses an existing file
OpenedFile(mode, exists, content) ==
    IF exists /\ mode \in {"r+", "a"} THEN content ELSE EmptyFile

CallArgs(entry, spec_kind, h5path, mode, overwrite, link_type, cda) ==
    [entry |-> entry, spec_kind |-> spec_kind, h5path |-> h5path,
     h5_file_mode |-> mode, overwrite_data |-> overwrite,
     link_type |-> link_type, create_dataset_args |-> cda]

NoArgs == CallArgs("none", "path", Root, "a", FALSE, "hard", "None")

\* write_spec_to_h5 up to the call of visititems
write_spec_to_h5(a) ==
    LET byPath == env.h5kind = "path"
        files == (IF a.spec_kind = "path" THEN {"spec_file"} ELSE {})
                 \cup (IF byPath THEN {"h5_file"} ELSE {})
        content == IF byPath THEN OpenedFile(a.h5_file_mode, fileExists, h5f)
                   ELSE h5f
    IN /\ args' = [a EXCEPT !.h5path = NormH5Path(a.h5path),
                            !.create_dataset_args = NormArgs(a.create_dataset_args)]
       /\ opened' = opened \cup files
       /\ run' = run + 1
       /\ snap' = h5f
       /\ log' = {}
       /\ UNCHANGED <<env, nid>>
       /\ IF byPath /\ ~CanOpen(a.h5_file_mode, fileExists)
          THEN /\ pc' = "raised"
               /\ err' = [type |-> "IOError", line |-> 71]
               /\ UNCHANGED <<h5f, h5f0, fileExists, h5open, idx>>
          ELSE /\ pc' = "running"
               /\ err' = NoErr
               /\ h5f' = content
               /\ h5f0' = content
               /\ fileExists' = TRUE
               /\ h5open' = TRUE
               /\ idx' = 1

\* convert with the append mode let through
convert_append_allowed(a) ==
    IF a.h5_file_mode \notin {"w", "w-", "a"}
    THEN /\ pc' = "raised"
         /\ err' = [type |-> "IOError", line |-> 186]
         /\ args' = a
         /\ run' = run + 1
         /\ snap' = h5f
         /\ log' = {}
         /\ UNCHANGED <<env, h5f, nid, fileExists, h5open, idx, opened, h5f0>>
    ELSE write_spec_to_h5([a EXCEPT !.h5path = Root, !.overwrite_data = FALSE])

convert(a) ==
    IF a.h5_file_mode \notin {"w", "w-"}
    THEN /\ pc' = "raised"
         /\ err' = [type |-> "IOError", line |-> 186]
         /\ args' = a
         /\ run' = run + 1
         /\ snap' = h5f
         /\ log' = {}
         /\ UNCHANGED <<env, h5f, nid, fileExists, h5open, idx, opened, h5f0>>
    ELSE write_spec_to_h5([a EXCEPT !.h5path = Root, !.overwrite_data = FALSE])

Invoke(a) == IF a.entry = "convert" THEN convert(a) ELSE write_spec_to_h5(a)

CallWrite ==
    /\ pc = "idle"
    /\ \E spec_kind \in {"path", "object"}, mode \in Modes, ow \in BOOLEAN,
          lt \in LinkTypes, cda \in DatasetArgs :
         Invoke(CallArgs("write_spec_to_h5", spec_kind, env.mount, mode, ow, lt, cda))
    /\ UNCHANGED ax

CallConvert ==
    /\ pc = "idle"
    /\ \E spec_kind \in {"path", "object"}, mode \in Modes,
          lt \in LinkTypes, cda \in DatasetArgs :
         Invoke(CallArgs("convert", spec_kind, Root, mode, FALSE, lt, cda))
    /\ UNCHANGED ax

\* visititems calls append_spec_member_to_h5 on the next member
Visit ==
    /\ pc = "running"
    /\ idx <= Len(env.src)
    /\ LET s0 == [h5 |-> h5f, nid |-> nid, err |-> NoErr, log |-> log]
           s == append_spec_member_to_h5(s0, args, env.src[idx])
       IN /\ h5f' = s.h5
          /\ nid' = s.nid
          /\ log' = s.log
          /\ err' = s.err
          /\ IF s.err = NoErr
             THEN pc' = "running" /\ idx' = idx + 1
             ELSE pc' = "raised" /\ idx' = idx
    /\ UNCHANGED <<env, args, fileExists, h5open, opened, h5f0, snap, run, ax>>

\* visititems is through: close the file if this call opened it
Return ==
    /\ pc = "running"
    /\ idx > Len(env.src)
    /\ pc' = "done"
    /\ h5open' = IF env.h5kind = "path" THEN FALSE ELSE h5open
    /\ UNCHANGED <<env, args, h5f, nid, fileExists, idx, err, log, opened, h5f0,
                   snap, run, ax>>

\* the caller makes the same call again
Again ==
    /\ pc = "done"
    /\ run < MaxRuns
    /\ Invoke(args)
    /\ UNCHANGED ax

Init ==
    /\ pc = "idle"
    /\ \E src \in Sources, mount \in Mounts, kind \in {"handle", "path"},
          seed \in Seeds, exists \in BOOLEAN :
         /\ kind = "handle" => exists
         /\ ~exists => seed = "none"
         /\ env = [src |-> src, mount |-> mount, h5kind |-> kind, seed |-> seed]
         /\ fileExists = exists
         /\ h5f = IF exists THEN SeedFile(mount, seed).h5 ELSE EmptyFile
         /\ nid = IF exists THEN SeedFile(mount, seed).nid ELSE 1
         /\ h5open = (kind = "handle")
    /\ args = NoArgs
    /\ idx = 0
    /\ err = NoErr
    /\ log = {}
    /\ opened = {}
    /\ h5f0 = h5f
    /\ snap = h5f
    /\ run = 0
    /\ ax = NewAxes(FALSE)

Next == CallWrite \/ CallConvert \/ Visit \/ Return \/ Again

Spec == Init /\ [][Next]_vars

\* a call of a method of one of the two axes
SetLogarithmic ==
    /\ ax.calls < MaxCalls
    /\ \E axis \in Axes, flag \in BOOLEAN :
         ax' = [setLogarithmic(ax, axis, flag) EXCEPT !.calls = @ + 1]
    /\ UNCHANGED <<pc, env, args, h5f, nid, fileExists, h5open, idx, err, log,
                   opened, h5f0, snap, run>>

SetInverted ==
    /\ ax.calls < MaxCalls
    /\ \E axis \in Axes, flag \in BOOLEAN :
         ax' = [setInverted(ax, axis, flag) EXCEPT !.calls = @ + 1]
    /\ UNCHANGED <<pc, env, args, h5f, nid, fileExists, h5open, idx, err, log,
                   opened, h5f0, snap, run>>

SetAutoScale ==
    /\ ax.calls < MaxCalls
    /\ \E axis \in Axes, flag \in BOOLEAN :
         ax' = [setAutoScale(ax, axis, flag) EXCEPT !.calls = @ + 1]
    /\ UNCHANGED <<pc, env, args, h5f, nid, fileExists, h5open, idx, err, log,
                   opened, h5f0, snap, run>>

\* a plot with its two Y axes, no conversion going on
AxisInit ==
    /\ pc = "idle"
    /\ env = [src |-> SrcPlain, mount |-> Root, h5kind |-> "handle",
              seed |-> "none"]
    /\ args = NoArgs
    /\ h5f = EmptyFile
    /\ nid = 1
    /\ fileExists = TRUE
    /\ h5open = TRUE
    /\ idx = 0
    /\ err = NoErr
    /\ log = {}
    /\ opened = {}
    /\ h5f0 = EmptyFile
    /\ snap = EmptyFile
    /\ run = 0
    /\ \E inverted \in BOOLEAN : ax = NewAxes(inverted)

AxisNext == SetLogarithmic \/ SetInverted \/ SetAutoScale

AxisSpec == AxisInit /\ [][AxisNext]_vars

-----------------------------------------------------------------------------
(* Vocabulary of the properties *)

Ended == pc \in {"done", "raised"}

\* s starts with p
StartsWith(s, p) == Len(s) >= Len(p) /\ SubSeq(s, 1, Len(p)) = p

\* the call got as far as the traversal, or through it
Traversed == pc = "done" \/ (pc = "raised" /\ err.line \notin {71, 186})

LegalLinkType == args.link_type \in {"hard", "soft"}

\* a second call finds the file the first call left
KeepsTarget == env.h5kind = "handle" \/ args.h5_file_mode \in {"r+", "a"}

\* target path of a member of the source
TargetPath(obj) == Norm(H5Name(args, obj.name))

SourceNodes(kinds) ==
    {env.src[i] : i \in {j \in 1..Len(env.src) : env.src[j].kind \in kinds}}

\* .../<int>.<int>/instrument/mca_<int>/data and .../instrument/mca_<int>
IsMcaDataPath(p) == MatchMcaData(p) /\ Len(p) > 2 /\ p[Len(p) - 1] = Sep
IsMcaGroupPath(p) == MatchMcaGroup(p)

\* the path with the instrument segment of the MCA pattern (the last one)
\* turned into measurement
SegmentAlias(p) ==
    LET last == CHOOSE i \in 1..Len(p) :
                    /\ p[i] = "instrument"
                    /\ \A j \in (i + 1)..Len(p) : p[j] # "instrument"
    IN [i \in 1..Len(p) |-> IF i = last THEN "measurement" ELSE p[i]]

\* l is a link of kind lt to the member at d
IsLinkTo(f, l, d, lt) ==
    /\ l \in DOMAIN f
    /\ d \in DOMAIN f
    /\ l # d
    /\ IF lt = "hard" THEN f[l].kind = f[d].kind /\ f[l].id = f[d].id
       ELSE f[l].kind = "soft" /\ f[l].to = d

\* paths, dataset values and link targets, object identities put aside
Content(f) ==
    [p \in DOMAIN f |->
        [kind |-> f[p].kind, data |-> f[p].data, shape |-> f[p].shape,
         opts |-> f[p].opts, to |-> f[p].to,
         same |-> IF f[p].id < 0 THEN {p}
                  ELSE {q \in DOMAIN f : f[q].id = f[p].id}]]

-----------------------------------------------------------------------------
(* Properties *)

\* C1: with overwrite_data false, a second write_spec_to_h5 with the same
\* arguments against the same target raises no error and leaves the target
\* exactly as the first call left it, for every source tree.
C1_SecondRunUnchanged ==
    (/\ run = 2
     /\ Ended
     /\ args.entry = "write_spec_to_h5"
     /\ ~args.overwrite_data
     /\ KeepsTarget)
    => (err = NoErr /\ h5f = snap)

\* C2: starting from a fresh target, two calls with overwrite_data true on
\* the same source both complete, and the target then has the paths,
\* dataset values and link targets it had after the first call.
C2_OverwriteIdempotent ==
    (/\ run = 2
     /\ Ended
     /\ args.entry = "write_spec_to_h5"
     /\ args.overwrite_data
     /\ env.seed = "none"
     /\ KeepsTarget)
    => (pc = "done" /\ Content(h5f) = Content(snap))

\* C3: when a link_type other than "hard" or "soft" makes write_spec_to_h5
\* raise its ValueError, nothing has been created or deleted in the target.
C3_BadLinkTypeBeforeWrites ==
    (/\ pc = "raised"
     /\ err.type = "ValueError"
     /\ ~LegalLinkType)
    => (log = {} /\ h5f = h5f0)

\* C4: after write_spec_to_h5 returns, every source dataset whose target
\* path is .../<int>.<int>/instrument/mca_<int>/data has, at the path with
\* that instrument segment replaced by measurement, a link of the
\* requested kind to the dataset at the instrument path.
C4_McaDataAlias ==
    (pc = "done" /\ LegalLinkType)
    => \A obj \in SourceNodes({"Dataset"}) :
          IsMcaDataPath(TargetPath(obj))
          => IsLinkTo(h5f, SegmentAlias(TargetPath(obj)), TargetPath(obj),
                      args.link_type)

\* C5: for every source group whose target path is
\* .../<int>.<int>/instrument/mca_<int>, write_spec_to_h5 returns with
\* .../measurement/mca_<int>/info a link to the group at the instrument
\* path, whether the group was created by the call or existed before it.
C5_McaGroupInfo ==
    (Traversed /\ LegalLinkType)
    => /\ pc = "done"
       /\ \A obj \in SourceNodes({"Group"}) :
             IsMcaGroupPath(TargetPath(obj))
             => IsLinkTo(h5f, SegmentAlias(TargetPath(obj)) \o <<Sep, "info">>,
                         TargetPath(obj), args.link_type)

\* C6: every source dataset whose target path was absent from the target
\* before the call is, after the call, a dataset at that path holding the
\* source's data, whatever overwrite_data is and whatever else the target
\* held.
C6_AbsentDatasetsWritten ==
    (Traversed /\ LegalLinkType)
    => \A obj \in SourceNodes({"Dataset"}) :
          TargetPath(obj) \notin DOMAIN h5f0
          => /\ TargetPath(obj) \in DOMAIN h5f
             /\ h5f[TargetPath(obj)].kind = "dataset"
             /\ h5f[TargetPath(obj)].data = obj.data

\* C7: every name write_spec_to_h5 creates or deletes in the target starts
\* with the mount path normalized to end with one separator.
C7_WritesUnderMount ==
    args.entry # "none" => \A name \in log : StartsWith(name, args.h5path)

NoShape(f) == [p \in DOMAIN f |-> [f[p] EXCEPT !.shape = "", !.opts = ""]]

\* C9: a visit that creates a dataset passes create_dataset_args exactly
\* when the shape is not scalar; a scalar dataset is created, and linked,
\* as a non-scalar one at the same path would be, so that on a fresh target
\* a scalar <scanID>/instrument/mca_<N>/data gets its alias link.
C9_ScalarExemption ==
    [][LET obj == env.src[idx]
           h == TargetPath(obj)
           asArray == append_spec_member_to_h5(
                          [h5 |-> h5f, nid |-> nid, err |-> NoErr, log |-> log],
                          args, [obj EXCEPT !.shape = "array"])
       IN (/\ pc = "running"
           /\ idx <= Len(env.src)
           /\ obj.kind = "Dataset"
           /\ args.overwrite_data \/ h \notin DOMAIN h5f)
          => /\ h \in DOMAIN h5f'
             /\ h5f'[h].kind = "dataset"
             /\ h5f'[h].data = obj.data
             /\ h5f'[h].opts = IF obj.shape = "scalar" THEN "empty"
                               ELSE args.create_dataset_args
             /\ obj.shape = "scalar"
                => /\ err' = asArray.err
                   /\ NoShape(h5f') = NoShape(asArray.h5)
                   /\ (IsMcaDataPath(h) /\ LegalLinkType /\ h5f0 = EmptyFile)
                      => \E l \in DOMAIN h5f' :
                            IsLinkTo(h5f', l, h, args.link_type)
      ]_vars

C9_Witness ==
    /\ pc = "running"
    /\ env.src = SrcMca("scalar")
    /\ env.mount = Root
    /\ idx = 5
    /\ h5f0 = EmptyFile
    /\ args.create_dataset_args = "gzip"
    /\ args.link_type = "hard"
    /\ InstrMcaData \in DOMAIN h5f
    /\ h5f[InstrMcaData].kind = "dataset"
    /\ h5f[InstrMcaData].opts = "empty"
    /\ IsLinkTo(h5f, MeasMcaData, InstrMcaData, "hard")

\* C10: the visit of a LinkToGroup or LinkToDataset member of the source
\* changes nothing in the target and raises nothing, whatever overwrite_data
\* and link_type are.
C10_LinksSkipped ==
    [][(/\ pc = "running"
        /\ idx <= Len(env.src)
        /\ env.src[idx].kind \in {"LinkToGroup", "LinkToDataset"})
       => (/\ h5f' = h5f
           /\ nid' = nid
           /\ log' = log
           /\ err' = NoErr
           /\ pc' = "running")
      ]_vars

C10_Witness ==
    /\ pc = "running"
    /\ idx > 1
    /\ env.src[idx - 1].kind = "LinkToDataset"
    /\ args.overwrite_data
    /\ TargetPath(env.src[idx - 1]) \in DOMAIN h5f

\* C11: convert ignores h5_file_mode when h5_file is an open file handle:
\* whatever the mode, the call converts into the handle and raises no
\* error about the mode.
C11_ModeIgnoredForHandle ==
    (/\ args.entry = "convert"
     /\ env.h5kind = "handle"
     /\ pc # "idle")
    => (err.type # "IOError" /\ idx >= 1)

\* C12: the visit of a Dataset member whose target path exists, with
\* overwrite_data false, leaves the target as it is (the entry unchanged, no
\* alias link created, deleted or replaced), raises nothing and lets the
\* traversal go on, also for a path <scanID>/instrument/mca_<N>/data.
C12_ExistingDatasetSkipped ==
    [][(/\ pc = "running"
        /\ idx <= Len(env.src)
        /\ env.src[idx].kind = "Dataset"
        /\ ~args.overwrite_data
        /\ TargetPath(env.src[idx]) \in DOMAIN h5f)
       => (/\ h5f' = h5f
           /\ log' = log
           /\ err' = NoErr
           /\ pc' = "running"
           /\ idx' = idx + 1)
      ]_vars

\* C13: the visit of a Group member whose target path exists neither
\* deletes nor recreates that group, whatever overwrite_data is, and raises
\* nothing, also for a path <scanID>/instrument/mca_<N>.
C13_ExistingGroupKept ==
    [][(/\ pc = "running"
        /\ idx <= Len(env.src)
        /\ env.src[idx].kind = "Group"
        /\ TargetPath(env.src[idx]) \in DOMAIN h5f)
       => (/\ TargetPath(env.src[idx]) \in DOMAIN h5f'
           /\ h5f'[TargetPath(env.src[idx])] = h5f[TargetPath(env.src[idx])]
           /\ TargetPath(env.src[idx]) \notin {Norm(n) : n \in log' \ log}
           /\ err' = NoErr
           /\ pc' = "running"
           /\ idx' = idx + 1)
      ]_vars

\* the last signal emitted is the main axis's signal name, carrying value
Signalled(a, name, value) ==
    /\ Len(a.emitted) >= 1
    /\ a.emitted[Len(a.emitted)] =
           [signal |-> [owner |-> "main", name |-> name], value |-> value]

\* C14: after any sequence of setLogarithmic, setInverted and setAutoScale
\* calls on the YRightAxis or on its main axis, isLogarithmic, isInverted
\* and isAutoScale answer the same on both axes, and every change of one of
\* them is signalled, by a signal of the main axis and by no other.
C14_SharedYState ==
    /\ [](/\ isLogarithmic(ax, "right") = isLogarithmic(ax, "main")
          /\ isInverted(ax, "right") = isInverted(ax, "main")
          /\ isAutoScale(ax, "right") = isAutoScale(ax, "main")
          /\ \A i \in 1..Len(ax.emitted) : ax.emitted[i].signal.owner = "main")
    /\ [][\A axis \in Axes :
            /\ isLogarithmic(ax', axis) # isLogarithmic(ax, axis)
               => /\ Len(ax'.emitted) = Len(ax.emitted) + 1
                  /\ Signalled(ax', "sigLogarithmicChanged", isLogarithmic(ax', axis))
            /\ isInverted(ax', axis) # isInverted(ax, axis)
               => /\ Len(ax'.emitted) = Len(ax.emitted) + 1
                  /\ Signalled(ax', "sigInvertedChanged", isInverted(ax', axis))
            /\ isAutoScale(ax', axis) # isAutoScale(ax, axis)
               => /\ Len(ax'.emitted) = Len(ax.emitted) + 1
                  /\ Signalled(ax', "sigAutoScaleChanged", isAutoScale(ax', axis))
        ]_vars

C14_Witness ==
    /\ ax.calls = 3
    /\ isLogarithmic(ax, "right")
    /\ isLogarithmic(ax, "main")
    /\ isInverted(ax, "right")
    /\ ~isAutoScale(ax, "main")
    /\ Len(ax.emitted) = 3
    /\ ax.isLog["right"] = FALSE

====
